---- MODULE Spec2Model ----
(***************************************************************************)
(* A model of hierarchy.py: the k-fold index partitioner of Stimulus and   *)
(* the result cache / merge layer of Clusters (run_analysis, load_results, *)
(* merge_results, build_param_str), the loader Clusters.__init__ and the   *)
(* queries on the loaded collection (select_data, get_sorted, get_data,    *)
(* find_missing_results).                                                  *)
(*                                                                         *)
(* Python values are modelled as follows.                                  *)
(*   numpy index arrays   sequences of integers (0-based values)           *)
(*   dict                 a sequence of <<key, value>> pairs with distinct *)
(*                        keys, in insertion order                         *)
(*   str                  a TLA+ string where only equality matters, a     *)
(*                        sequence of one-character strings where the code *)
(*                        looks inside the text (build_param_str, paths)   *)
(***************************************************************************)
EXTENDS Integers, Sequences, FiniteSets, TLC

VARIABLES
    fin,          \* Stimulus.get_indices: the call's arguments
    fout,         \* Stimulus.get_indices: what the call returned
    resultsFile,  \* the single results file <param string>.pkl
    resultsDir,   \* the per-cluster files of the directory <param string>/
    job,          \* the run_analysis call each batch job is executing
    clusters,     \* Clusters.clusters: the in-memory unit collection
    hist,         \* history of the run_analysis calls (not program state)
    pin,          \* two analyses (func, params) whose results are stored
    pout,         \* the results paths computed for them
    margs,        \* the arguments of the last merge_results / load_results
    raw,          \* raw_data['clusters']: the units of the recording store
    db,           \* the Clusters object built from it by Clusters.__init__
    qcall,        \* the last query on the object: the method and its arguments
    qret          \* what that query returned or raised

foldVars  == <<fin, fout>>
runVars   == <<resultsFile, resultsDir, job, clusters, hist, margs>>
paramVars == <<pin, pout>>
dataVars  == <<raw, db, qcall, qret>>
vars      == <<fin, fout, resultsFile, resultsDir, job, clusters, hist,
               pin, pout, margs, raw, db, qcall, qret>>

----------------------------------------------------------------------------
(* Sequences and sets *)

Range(s) == {s[i] : i \in 1..Len(s)}

Min(S) == CHOOSE x \in S : \A y \in S : x <= y

\* range(a, b) / np.arange(a, b)
Arange(a, b) == [i \in 1..(IF b > a THEN b - a ELSE 0) |-> a + i - 1]

\* the elements of a set of integers in ascending order
SortedSeq(S) ==
    [i \in 1..Cardinality(S) |->
        CHOOSE x \in S : Cardinality({y \in S : y < x}) = i - 1]

RECURSIVE Concatenate(_)
\* np.concatenate of a sequence of arrays
Concatenate(ss) ==
    IF ss = <<>> THEN <<>> ELSE Head(ss) \o Concatenate(Tail(ss))

\* np.sort: ascending, duplicates kept. rank[i] is the place of s[i] in the
\* sorted array (equal values keep their order).
NpSort(s) ==
    LET n == Len(s)
        rank == [i \in 1..n |->
                    Cardinality({j \in 1..n : s[j] < s[i]})
                    + Cardinality({j \in 1..i : s[j] = s[i]})]
    IN  [r \in 1..n |-> s[CHOOSE i \in 1..n : rank[i] = r]]

\* np.intersect1d: the sorted, unique values that are in both arrays
Intersect1d(a, b) == SortedSeq(Range(a) \cap Range(b))

\* ceil(a / b) for a >= 0, b > 0
Ceil(a, b) == (a + b - 1) \div b

----------------------------------------------------------------------------
(* Stimulus: the index subsets and the k-fold partitioner *)

\* Length in time bins of one stimulus segment. The stim-12 subsets are written
\* for segments of 1600 bins (6400 = 4 * 1600); the model scales that down.
SegLen == 22

\* The number of initial chords of every segment that 'valid20' drops.
NDrop == 20

\* The number of DRCs of stim type 19 (range(1, 16) in STIMULI), scaled down.
NDrc19 == 2

\* The largest integer k_folds the model tries.
MaxK == 4

StimTypes == {12, 19, 25}

Contrasts == <<20, 40>>

\* The grid file codes of one stim type, as (drc, contrast), in the order
\* itertools.product gives: the last parameter varies fastest, and for a
\* 'reverse_params' stimulus the contrast is the outer parameter.
StimulusOrder(stimType) ==
    LET nd == IF stimType = 19 THEN NDrc19 ELSE 2
        reverse == (stimType = 19)
    IN  [i \in 1..(nd * 2) |->
            IF reverse
            THEN [type |-> stimType, drc |-> ((i - 1) % nd) + 1,
                  contrast |-> Contrasts[((i - 1) \div nd) + 1]]
            ELSE [type |-> stimType, drc |-> ((i - 1) \div 2) + 1,
                  contrast |-> Contrasts[((i - 1) % 2) + 1]]]

\* Stimulus.__init__: per segment, its length, its contrast at every time bin
\* (0 for a contrast-20 grid, 1 for a contrast-40 grid) and the position of
\* every time bin from the segment's onset.
SegmentLengths(stimType) ==
    [i \in 1..Len(StimulusOrder(stimType)) |-> SegLen]

C_t(stimType) ==
    LET codes == StimulusOrder(stimType)
    IN  Concatenate([i \in 1..Len(codes) |->
            [t \in 1..SegmentLengths(stimType)[i] |->
                IF codes[i].contrast = 20 THEN 0 ELSE 1]])

T_bins_from_onset(stimType) ==
    Concatenate([i \in 1..Len(StimulusOrder(stimType)) |->
        Arange(0, SegmentLengths(stimType)[i])])

RECURSIVE Sum(_)
Sum(s) == IF s = <<>> THEN 0 ELSE Head(s) + Sum(Tail(s))

\* np.where(a == v)[0]: the 0-based positions of the value v, ascending
WhereEq(a, v) ==
    LET Keep(i) == a[i + 1] = v IN SelectSeq(Arange(0, Len(a)), Keep)

\* np.where(a > v)[0]
WhereGt(a, v) ==
    LET Keep(i) == a[i + 1] > v IN SelectSeq(Arange(0, Len(a)), Keep)

\* np.where(a >= v)[0]
WhereGe(a, v) ==
    LET Keep(i) == a[i + 1] >= v IN SelectSeq(Arange(0, Len(a)), Keep)

SubsetNames == {"all", "valid20"} \X {"all", "lo", "hi"}

\* Stimulus.indices for stim_types == [12]: the hard-coded arrays
Indices12 ==
    LET all_all == Arange(0, 4 * SegLen)
        all_lo  == Arange(0, SegLen) \o Arange(2 * SegLen, 3 * SegLen)
        all_hi  == Arange(SegLen, 2 * SegLen) \o Arange(3 * SegLen, 4 * SegLen)
        v_all   == Arange(NDrop, SegLen)
                   \o Arange(SegLen + NDrop, 2 * SegLen)
                   \o Arange(2 * SegLen + NDrop, 3 * SegLen)
                   \o Arange(3 * SegLen + NDrop, 4 * SegLen)
    IN  [n \in SubsetNames |->
            CASE n = <<"all", "all">> -> all_all
              [] n = <<"all", "lo">>  -> all_lo
              [] n = <<"all", "hi">>  -> all_hi
              [] n = <<"valid20", "all">> -> v_all
              [] n = <<"valid20", "lo">>  -> Intersect1d(v_all, all_lo)
              [] n = <<"valid20", "hi">>  -> Intersect1d(v_all, all_hi)]

\* Stimulus.indices for stim_types == [19]: computed from the stimulus
Indices19 ==
    LET n_t == Sum(SegmentLengths(19))
        c_t == C_t(19)
        t_bins == T_bins_from_onset(19)
        all_lo == WhereEq(c_t, 0)
        all_hi == WhereEq(c_t, 1)
        v_all  == WhereGe(t_bins, NDrop)
    IN  [n \in SubsetNames |->
            CASE n = <<"all", "all">> -> Arange(0, n_t)
              [] n = <<"all", "lo">>  -> all_lo
              [] n = <<"all", "hi">>  -> all_hi
              [] n = <<"valid20", "all">> -> v_all
              [] n = <<"valid20", "lo">>  -> Intersect1d(v_all, all_lo)
              [] n = <<"valid20", "hi">>  -> Intersect1d(v_all, all_hi)]

\* Stimulus.indices: defined for [12] and [19] only; for any other stim types
\* 'idxes' is never bound and the return raises UnboundLocalError.
HasIndices(stimType) == stimType \in {12, 19}

Indices(stimType) == IF stimType = 12 THEN Indices12 ELSE Indices19

\* k sections of Len // k elements each: the remainder is dropped
ArraySplitDropsRemainder(ary, k) ==
    LET each == Len(ary) \div k
    IN  [i \in 1..k |-> SubSeq(ary, (i - 1) * each + 1, i * each)]

\* np.array_split(ary, k): k sections in order; the first Len % k sections
\* hold one element more than the others
ArraySplit(ary, k) ==
    LET n == Len(ary)
        each == n \div k
        extras == n % k
        Start(i) == (i - 1) * each + (IF i - 1 < extras THEN i - 1 ELSE extras)
    IN  [i \in 1..k |-> SubSeq(ary, Start(i) + 1, Start(i + 1))]

\* splits[:i] + splits[i:]: the test split is left among the training splits
OtherSplitsKeepsTest(splits, i) == splits

\* the list of splits without its i-th element (splits[:i] + splits[i+1:])
OtherSplits(splits, i) ==
    [j \in 1..(Len(splits) - 1) |-> IF j < i THEN splits[j] ELSE splits[j + 1]]

\* the (train, test) pairs of lines 191-195
BuildFolds(splits) ==
    [i \in 1..Len(splits) |->
        [train |-> Concatenate(OtherSplits(splits, i)), test |-> splits[i]]]

\* the two checks of lines 199-205
NoOverlapCheck(folds) ==
    \A i \in 1..Len(folds) :
        Range(folds[i].train) \cap Range(folds[i].test) = {}

CoverageCheck(folds, idxes) ==
    NpSort(Concatenate([i \in 1..Len(folds) |-> folds[i].test])) = idxes

\* select only certain folds (lines 208-209); positions are 0-based
\* the selection with fold positions counted from 1
SelectFoldsOneBased(folds, include) ==
    IF include = {} THEN folds
    ELSE LET Keep(i) == i \in include
             kept == SelectSeq(Arange(1, Len(folds) + 1), Keep)
         IN  [j \in 1..Len(kept) |-> folds[kept[j]]]

SelectFolds(folds, include) ==
    IF include = {} THEN folds
    ELSE LET Keep(i) == (i - 1) \in include
             kept == SelectSeq(Arange(1, Len(folds) + 1), Keep)
         IN  [j \in 1..Len(kept) |-> folds[kept[j]]]

\* get_indices without its 'all_train' branch: the string falls through to
\* the single split that k_folds=None gets
GetIndicesResultSplitsAllTrain(stimType, spec, k_folds, include) ==
    IF ~HasIndices(stimType)
    THEN [status |-> "UnboundLocalError", folds |-> <<>>]
    ELSE LET splits == ArraySplit(Indices(stimType)[spec], 10)
         IN  [status |-> "ok",
              folds |-> <<[train |-> Concatenate(SubSeq(splits, 1, 9)),
                           test |-> splits[10]]>>]

\* Stimulus.get_indices(spec, k_folds, fold_idxes_to_include). k_folds is
\* [kind |-> "all_train"], [kind |-> "none"] or [kind |-> "int", n |-> ...];
\* include is the set of fold positions (empty for None and for []).
GetIndicesResult(stimType, spec, k_folds, include) ==
    IF ~HasIndices(stimType)
    THEN [status |-> "UnboundLocalError", folds |-> <<>>]
    ELSE LET idxes == Indices(stimType)[spec] IN
         IF k_folds.kind = "all_train"
         THEN [status |-> "ok",
               folds |-> <<[train |-> idxes, test |-> <<>>]>>]
         ELSE IF k_folds.kind = "none" \/ k_folds.n = 1
         THEN LET splits == ArraySplit(idxes, 10)
              IN  [status |-> "ok",
                   folds |-> <<[train |-> Concatenate(SubSeq(splits, 1, 9)),
                                test |-> splits[10]]>>]
         ELSE LET folds == BuildFolds(ArraySplit(idxes, k_folds.n))
              IN  IF ~NoOverlapCheck(folds)
                  THEN [status |-> "AssertionError: overlap", folds |-> folds]
                  ELSE IF ~CoverageCheck(folds, idxes)
                  THEN [status |-> "AssertionError: coverage", folds |-> folds]
                  ELSE [status |-> "ok", folds |-> SelectFolds(folds, include)]

KFoldsValues ==
    {[kind |-> "all_train", n |-> 0], [kind |-> "none", n |-> 0]}
    \cup {[kind |-> "int", n |-> k] : k \in 1..MaxK}

FoldsPending == [status |-> "pending", folds |-> <<>>]

FoldsIdle ==
    /\ fin = [stim |-> 12, spec |-> <<"all", "all">>,
              k_folds |-> [kind |-> "all_train", n |-> 0], include |-> {}]
    /\ fout = FoldsPending

FoldsInit ==
    /\ fin \in [stim : StimTypes, spec : SubsetNames, k_folds : KFoldsValues,
                include : SUBSET (0..(MaxK - 1))]
    /\ fout = FoldsPending

GetIndices ==
    /\ fout.status = "pending"
    /\ fout' = GetIndicesResult(fin.stim, fin.spec, fin.k_folds, fin.include)
    /\ UNCHANGED fin

----------------------------------------------------------------------------
(* Python dicts whose key order matters: sequences of <<key, value>> *)

Keys(d) == [i \in 1..Len(d) |-> d[i][1]]

HasKey(d, k) == \E i \in 1..Len(d) : d[i][1] = k

Get(d, k) == d[CHOOSE i \in 1..Len(d) : d[i][1] = k][2]

\* d[k] = v: an existing key keeps its place, a new key goes last
Put(d, k, v) ==
    IF HasKey(d, k)
    THEN [i \in 1..Len(d) |-> IF d[i][1] = k THEN <<k, v>> ELSE d[i]]
    ELSE Append(d, <<k, v>>)

RECURSIVE Update(_, _)
\* d.update(e)
Update(d, e) ==
    IF e = <<>> THEN d ELSE Update(Put(d, Head(e)[1], Head(e)[2]), Tail(e))

\* update of a dict whose key order is never read (an analysis result)
UpdateMap(a, b) ==
    [k \in (DOMAIN a) \cup (DOMAIN b) |-> IF k \in DOMAIN b THEN b[k] ELSE a[k]]

EmptyDict == [k \in {} |-> ""]

----------------------------------------------------------------------------
(* Clusters.run_analysis: the result cache *)

\* The number of clusters of the collection.
NClusters == 3

\* The largest total_data_segments (and this_data_segment) a call is given.
MaxSegments == 2

\* The number of run_analysis calls started in one behaviour.
MaxCalls == 2

\* The number of batch jobs that may run at the same time.
NJobs == 2

Jobs == 1..NJobs

\* func.__name__ and build_param_str(func, params) of the one analysis the
\* jobs run; build_param_str itself is modelled further down.
FuncName == "f"
AnalysisParamStr == "f--p=1"

\* The collection after construction: cluster i has the unique_id i (the
\* loader gives distinct clusters distinct unique_ids) and no result fields.
LoadedClusters ==
    [i \in 1..NClusters |-> [unique_id |-> i, fields |-> <<>>]]

\* What one invocation of func does: raise, return a falsy value (None, {})
\* or return a non-empty dict.
DictResults == {[cc |-> "ra"], [cc |-> "rb"]}

Outcomes ==
    {[kind |-> "raise", result |-> EmptyDict],
     [kind |-> "falsy", result |-> EmptyDict]}
    \cup {[kind |-> "dict", result |-> r] : r \in DictResults}

\* r = {'unique_id': ..., func.__name__: result}
Entry(uid, result) ==
    [unique_id |-> uid, fields |-> <<<<FuncName, result>>>>]

\* Clusters.apply_func_to_cluster: "raise" when func raises and fail_on_error,
\* "none" for an error that is swallowed or a falsy result, else the entry.
ApplyFuncToCluster(cluster, outcome, fail_on_error) ==
    IF outcome.kind = "raise"
    THEN [kind |-> IF fail_on_error THEN "raise" ELSE "none",
          r |-> Entry(cluster.unique_id, EmptyDict)]
    ELSE IF outcome.result = EmptyDict
    THEN [kind |-> "none", r |-> Entry(cluster.unique_id, EmptyDict)]
    ELSE [kind |-> "entry", r |-> Entry(cluster.unique_id, outcome.result)]

NoFile == [exists |-> FALSE, data |-> <<>>]

PickleDump(data) == [exists |-> TRUE, data |-> data]

\* results_dir / (unique_id + '--' + raw_param_str + '.pkl')
PerClusterPath(uid) == <<uid, "--", AnalysisParamStr, ".pkl">>

PathExists(dir, path) == path \in DOMAIN dir

WriteFile(dir, path, r) ==
    [p \in (DOMAIN dir) \cup {path} |-> IF p = path THEN r ELSE dir[p]]

\* segment_length and first_cluster_idx (lines 596-597)
SegmentLength(total) == Ceil(Len(clusters), total)

\* segments that start one cluster early and so overlap
FirstClusterIdxOverlaps(this, segment_length) ==
    (this - 1) * (segment_length - 1)

FirstClusterIdx(this, segment_length) == (this - 1) * segment_length

\* self.clusters[first_cluster_idx:first_cluster_idx+segment_length]
Segment(first, segment_length) ==
    SubSeq(clusters, first + 1,
           IF first + segment_length < Len(clusters)
           THEN first + segment_length ELSE Len(clusters))

IdleJob ==
    [pc |-> "idle", save |-> TRUE, multi |-> FALSE, ignore |-> FALSE,
     foe |-> FALSE, first |-> 0, segLen |-> 0, i |-> 0,
     res |-> <<>>, processed |-> <<>>,
     called |-> {}, got |-> {}, wrote |-> {}, overwrote |-> {}]

JobSegment(j) == Segment(job[j].first, job[j].segLen)

\* the cluster the loop of job j is at
Current(j) == JobSegment(j)[job[j].i + 1]

LoopEnded(j) == job[j].i >= Len(JobSegment(j))

Modes == {"single", "multi"}

ModeOf(jb) == IF jb.multi THEN "multi" ELSE "single"

HistInit ==
    [n |-> 0, resuming |-> TRUE,
     invoked |-> [m \in Modes |-> {}], sat |-> [m \in Modes |-> {}],
     twice |-> {}, again |-> {}]

Untracked(n) ==
    [n |-> n, resuming |-> FALSE,
     invoked |-> [m \in Modes |-> {}], sat |-> [m \in Modes |-> {}],
     twice |-> {}, again |-> {}]

\* the previous results are never loaded
ReadExistingForgets(ignore_existing) == <<>>

\* The single-file branch's read of the previous results (lines 638-650)
ReadExisting(ignore_existing) ==
    IF ignore_existing /\ resultsFile.exists THEN <<>>
    ELSE IF resultsFile.exists THEN resultsFile.data
    ELSE <<>>

ProcessedIds(res) == [i \in 1..Len(res) |-> res[i].unique_id]

\* run_analysis up to the start of its loop over the segment
Start(j, save, multi, ignore, foe, this, total) ==
    /\ job[j].pc \in {"idle", "done", "aborted"}
    /\ hist.n < MaxCalls
    /\ LET segment_length == SegmentLength(total)
           res == IF save /\ ~multi THEN ReadExisting(ignore) ELSE <<>>
       IN  job' = [job EXCEPT ![j] =
                [IdleJob EXCEPT !.pc = "loop", !.save = save, !.multi = multi,
                    !.ignore = ignore, !.foe = foe,
                    !.first = FirstClusterIdx(this, segment_length),
                    !.segLen = segment_length,
                    !.res = res, !.processed = ProcessedIds(res)]]
    /\ hist' = IF hist.resuming /\ ~(save /\ ignore)
               THEN [hist EXCEPT !.n = @ + 1]
               ELSE Untracked(hist.n + 1)
    /\ UNCHANGED <<resultsFile, resultsDir, clusters, margs>>

\* a call that ended: its arguments and what it did are kept, its locals go
Ended(jb, how) ==
    [jb EXCEPT !.pc = how, !.first = 0, !.segLen = 0, !.i = 0,
        !.res = <<>>, !.processed = <<>>]

\* the job after func was applied to its current cluster with result a: an
\* exception leaves run_analysis, anything else goes on with the next cluster
Applied(jb, uid, a) ==
    IF a.kind = "raise"
    THEN [Ended(jb, "aborted") EXCEPT !.called = @ \cup {uid}]
    ELSE [jb EXCEPT !.pc = "loop", !.i = @ + 1, !.called = @ \cup {uid},
             !.res = IF a.kind = "entry" /\ ~jb.multi THEN Append(@, a.r) ELSE @,
             !.got = IF a.kind = "entry"
                     THEN @ \cup {<<uid, Get(a.r.fields, FuncName)>>} ELSE @]

\* one pass of the loop of lines 610-615 (save_results=False)
StepNoSave(j, outcome) ==
    /\ job[j].pc = "loop" /\ ~job[j].save /\ ~LoopEnded(j)
    /\ LET c == Current(j)
       IN  job' = [job EXCEPT ![j] =
                Applied(@, c.unique_id, ApplyFuncToCluster(c, outcome, job[j].foe))]
    /\ UNCHANGED <<resultsFile, resultsDir, clusters, hist, margs>>

\* the loop never skips
AlreadyProcessedNever(jb, uid) == FALSE

\* whether the single-file loop skips a cluster (line 654)
AlreadyProcessed(jb, uid) == uid \in Range(jb.processed) /\ ~jb.ignore

\* one pass of the loop of lines 652-663 (single results file)
StepSingle(j, outcome) ==
    /\ job[j].pc = "loop" /\ job[j].save /\ ~job[j].multi /\ ~LoopEnded(j)
    /\ LET c == Current(j)
       IN  job' = [job EXCEPT ![j] =
                IF AlreadyProcessed(@, c.unique_id)
                THEN [@ EXCEPT !.i = @ + 1]
                ELSE Applied(@, c.unique_id,
                             ApplyFuncToCluster(c, outcome, job[j].foe))]
    /\ UNCHANGED <<resultsFile, resultsDir, clusters, hist, margs>>

\* whether the multiple-files loop skips a cluster (lines 678-683)
SkipExisting(jb, path) == PathExists(resultsDir, path) /\ ~jb.ignore

\* the multiple-files loop up to the call of func (lines 672-683)
CheckExists(j) ==
    /\ job[j].pc = "loop" /\ job[j].save /\ job[j].multi /\ ~LoopEnded(j)
    /\ job' = [job EXCEPT ![j] =
            IF SkipExisting(@, PerClusterPath(Current(j).unique_id))
            THEN [@ EXCEPT !.i = @ + 1]
            ELSE [@ EXCEPT !.pc = "compute"]]
    /\ UNCHANGED <<resultsFile, resultsDir, clusters, hist, margs>>

\* the multiple-files loop from the return of func (lines 685-690); func is
\* applied with the default fail_on_error=True
Compute(j, outcome) ==
    /\ job[j].pc = "compute"
    /\ LET c == Current(j)
           path == PerClusterPath(c.unique_id)
           a == ApplyFuncToCluster(c, outcome, TRUE)
           jb == Applied(job[j], c.unique_id, a)
       IN  IF a.kind = "entry"
           THEN /\ resultsDir' = WriteFile(resultsDir, path, a.r)
                /\ job' = [job EXCEPT ![j] =
                        [jb EXCEPT !.wrote = @ \cup {path},
                            !.overwrote = IF PathExists(resultsDir, path)
                                          THEN @ \cup {path} ELSE @]]
           ELSE /\ resultsDir' = resultsDir
                /\ job' = [job EXCEPT ![j] = jb]
    /\ UNCHANGED <<resultsFile, clusters, hist, margs>>

\* the history after a call completed
Completed(h, jb) ==
    IF ~h.resuming \/ ~jb.save THEN h
    ELSE LET m == ModeOf(jb)
         IN  [h EXCEPT
                !.twice = @ \cup {<<m, c>> : c \in jb.called \cap h.invoked[m]},
                !.again = @ \cup {<<m, c>> : c \in jb.called \cap h.sat[m]},
                !.invoked[m] = @ \cup jb.called,
                !.sat[m] = @ \cup {g[1] : g \in jb.got}]

\* the end of run_analysis: the single-file branch writes the whole list
\* (lines 665-668), the other branches have nothing left to do
Finish(j) ==
    /\ job[j].pc = "loop" /\ LoopEnded(j)
    /\ resultsFile' = IF job[j].save /\ ~job[j].multi
                      THEN PickleDump(job[j].res) ELSE resultsFile
    /\ job' = [job EXCEPT ![j] = Ended(@, "done")]
    /\ hist' = Completed(hist, job[j])
    /\ UNCHANGED <<resultsDir, clusters, margs>>

\* the batch job is killed while run_analysis runs
Kill(j) ==
    /\ job[j].pc \in {"loop", "compute"}
    /\ job' = [job EXCEPT ![j] = Ended(@, "aborted")]
    /\ UNCHANGED <<resultsFile, resultsDir, clusters, hist, margs>>

NoMerge == [op |-> "none"]

RunInit ==
    /\ resultsFile = NoFile
    /\ resultsDir = [p \in {} |-> Entry(0, EmptyDict)]
    /\ job = [j \in Jobs |-> IdleJob]
    /\ clusters = LoadedClusters
    /\ hist = HistInit
    /\ margs = NoMerge

ParamIdle ==
    /\ pin = <<>>
    /\ pout = <<>>

\* no recording store has been read and no query made
NotConstructed == [status |-> "none"]

NoQuery == [op |-> "none"]

DataIdle ==
    /\ raw = <<>>
    /\ db = NotConstructed
    /\ qcall = NoQuery
    /\ qret = NoQuery

\* The arguments of run_analysis: save_results, multiple_results_files,
\* ignore_existing, fail_on_error. Arguments the chosen branch never reads are
\* left at their defaults.
CallModes ==
    {[save |-> FALSE, multi |-> FALSE, ignore |-> FALSE, foe |-> f] :
        f \in BOOLEAN}
    \cup {[save |-> TRUE, multi |-> FALSE, ignore |-> g, foe |-> f] :
        g \in BOOLEAN, f \in BOOLEAN}
    \cup {[save |-> TRUE, multi |-> TRUE, ignore |-> g, foe |-> FALSE] :
        g \in BOOLEAN}

NoSaveStep(j) ==
    (\E o \in Outcomes : StepNoSave(j, o)) /\ UNCHANGED <<foldVars, paramVars, dataVars>>

SingleStep(j) ==
    (\E o \in Outcomes : StepSingle(j, o)) /\ UNCHANGED <<foldVars, paramVars, dataVars>>

MultiCheck(j) == CheckExists(j) /\ UNCHANGED <<foldVars, paramVars, dataVars>>

MultiCompute(j) ==
    (\E o \in Outcomes : Compute(j, o)) /\ UNCHANGED <<foldVars, paramVars, dataVars>>

Return(j) == Finish(j) /\ UNCHANGED <<foldVars, paramVars, dataVars>>

Killed(j) == Kill(j) /\ UNCHANGED <<foldVars, paramVars, dataVars>>

\* One process calls run_analysis again and again, with any arguments.
Call ==
    /\ \E a \in CallModes, this \in 1..MaxSegments, total \in 1..MaxSegments :
            Start(1, a.save, a.multi, a.ignore, a.foe, this, total)
    /\ UNCHANGED <<foldVars, paramVars, dataVars>>

\* the calls that save their results
SavingCall ==
    /\ \E a \in {m \in CallModes : m.save} :
       \E this \in 1..MaxSegments, total \in 1..MaxSegments :
            Start(1, a.save, a.multi, a.ignore, a.foe, this, total)
    /\ UNCHANGED <<foldVars, paramVars, dataVars>>

SeqInit == RunInit /\ FoldsIdle /\ ParamIdle /\ DataIdle

SeqNext ==
    \/ Call
    \/ NoSaveStep(1)
    \/ SingleStep(1)
    \/ MultiCheck(1)
    \/ MultiCompute(1)
    \/ Return(1)
    \/ Killed(1)

SpecSeq == SeqInit /\ [][SeqNext]_vars

\* The segments 1..NJobs of one analysis run as separate batch jobs that save
\* their results, each started once, at the same time.
Submit(j) ==
    /\ job[j].pc = "idle"
    /\ \E a \in {m \in CallModes : m.save} :
            Start(j, a.save, a.multi, a.ignore, a.foe, j, NJobs)
    /\ UNCHANGED <<foldVars, paramVars, dataVars>>

ConcNext ==
    \E j \in Jobs :
        \/ Submit(j)
        \/ SingleStep(j)
        \/ MultiCheck(j)
        \/ MultiCompute(j)
        \/ Return(j)
        \/ Killed(j)

SpecConc == SeqInit /\ [][ConcNext]_vars

FoldsNext == GetIndices /\ UNCHANGED <<runVars, paramVars, dataVars>>

InitFolds == FoldsInit /\ RunInit /\ ParamIdle /\ DataIdle

SpecFolds == InitFolds /\ [][FoldsNext]_vars

----------------------------------------------------------------------------
(* Clusters.merge_results and Clusters.load_results *)

\* a cluster other than the i-th is returned, always the first
FindClusterFirst(cs, uid) == IF \E i \in 1..Len(cs) : cs[i].unique_id = uid THEN 1 ELSE 0

\* unique_ids.index(uid): the 1-based place of the first cluster with this
\* unique_id, 0 where list.index raises ValueError
FindCluster(cs, uid) ==
    IF \E i \in 1..Len(cs) : cs[i].unique_id = uid
    THEN Min({i \in 1..Len(cs) : cs[i].unique_id = uid})
    ELSE 0

\* one pass of the loop of lines 745-751 (and 763-769) over a record that can
\* be merged; new_fieldname is "" for None
MergeOne(cs, idx, rec, new_fieldname) ==
    IF new_fieldname # ""
    THEN [cs EXCEPT ![idx].fields =
            Put(@, new_fieldname, rec.fields[1][2])]
    ELSE [cs EXCEPT ![idx].unique_id = rec.unique_id,
                    ![idx].fields = Update(@, rec.fields)]

RECURSIVE MergeLoop(_, _, _)
\* the loop over the records; it stops, with what it merged so far, at a
\* unique_id the collection does not have (ValueError) and, for a new
\* fieldname, at a record with no field but unique_id (IndexError)
MergeLoop(cs, records, new_fieldname) ==
    IF records = <<>> THEN [clusters |-> cs, raised |-> FALSE]
    ELSE LET rec == Head(records)
             idx == FindCluster(cs, rec.unique_id)
         IN  IF idx = 0 \/ (new_fieldname # "" /\ rec.fields = <<>>)
             THEN [clusters |-> cs, raised |-> TRUE]
             ELSE MergeLoop(MergeOne(cs, idx, rec, new_fieldname),
                            Tail(records), new_fieldname)

RECURSIVE MergeFiles(_, _, _)
\* the loop over the filenames (lines 757-769); a file that cannot be opened
\* raises
MergeFiles(cs, files, new_fieldname) ==
    IF files = <<>> THEN [clusters |-> cs, raised |-> FALSE]
    ELSE IF ~Head(files).exists THEN [clusters |-> cs, raised |-> TRUE]
    ELSE LET done == MergeLoop(cs, Head(files).data, new_fieldname)
         IN  IF done.raised THEN done
             ELSE MergeFiles(done.clusters, Tail(files), new_fieldname)

\* Clusters.merge_results(filenames_or_res, new_fieldname): arg is
\* [kind |-> "res", records |-> ...] for a list of result records and
\* [kind |-> "files", files |-> ...] for filenames (each file's contents).
\* An empty list raises IndexError at filenames_or_res[0].
MergeResultsOf(cs, arg, new_fieldname) ==
    IF arg.kind = "res"
    THEN IF arg.records = <<>> THEN [clusters |-> cs, raised |-> TRUE]
         ELSE MergeLoop(cs, arg.records, new_fieldname)
    ELSE IF arg.files = <<>> THEN [clusters |-> cs, raised |-> TRUE]
    ELSE MergeFiles(cs, arg.files, new_fieldname)

\* the values load_results records with a result
AnalysisFunc == "f"
AnalysisParams == "p=1"

\* build_fieldname(func, params) of the analysis
AnalysisFieldname == "f__p_1"

\* the result is left as saved
AnnotateNothing(r) == r

\* lines 790-794: the first field of r other than unique_id gets the keys
\* analysis_func and analysis_params
Annotate(r) ==
    [r EXCEPT !.fields[1][2] =
        UpdateMap(@, [analysis_func |-> AnalysisFunc,
                      analysis_params |-> AnalysisParams])]

\* the orders in which iterdir may list a set of paths
Orders(S) == {o \in [1..Cardinality(S) -> S] : Range(o) = S}

\* Clusters.load_results(func, params, fieldname); fieldname is "" for None,
\* order is the order in which iterdir lists the per-cluster files. The single
\* results file is tried first; whatever is raised there (no file, an empty
\* list, an unknown unique_id) is swallowed and the directory is tried.
LoadResultsOf(cs, fieldname, order) ==
    LET new_fieldname == IF fieldname # "" THEN fieldname ELSE AnalysisFieldname
        single == MergeResultsOf(cs,
                    [kind |-> "res",
                     records |-> [k \in 1..Len(resultsFile.data) |->
                                     Annotate(resultsFile.data[k])]],
                    new_fieldname)
    IN  IF resultsFile.exists /\ ~single.raised
        THEN single.clusters
        ELSE LET cs1 == IF resultsFile.exists THEN single.clusters ELSE cs
                 multi == MergeResultsOf(cs1,
                            [kind |-> "res",
                             records |-> [k \in 1..Len(order) |->
                                             Annotate(resultsDir[order[k]])]],
                            new_fieldname)
             IN  multi.clusters

FieldNames == {"", "fa"}

LoadResults ==
    /\ \A j \in Jobs : job[j].pc \notin {"loop", "compute"}
    /\ margs.op = "none"
    /\ \E fieldname \in FieldNames, order \in Orders(DOMAIN resultsDir) :
        /\ clusters' = LoadResultsOf(clusters, fieldname, order)
        /\ margs' = [op |-> "load", fieldname |-> fieldname]
    /\ UNCHANGED <<resultsFile, resultsDir, job, hist, foldVars, paramVars,
                 dataVars>>

\* One process calls run_analysis a few times and then load_results.
LoadNext ==
    \/ margs.op = "none" /\ SavingCall
    \/ SingleStep(1)
    \/ MultiCheck(1)
    \/ MultiCompute(1)
    \/ Return(1)
    \/ Killed(1)
    \/ LoadResults

SpecLoad == SeqInit /\ [][LoadNext]_vars

\* The records merge_results is given: a unique_id (0: one the collection does
\* not have) and the other fields, in order.
MaxRecords == 2

RecordFields ==
    {<<>>,
     <<<<"f", [cc |-> "ra"]>>>>,
     <<<<"f", [cc |-> "rb"]>>>>,
     <<<<"g", [cc |-> "ra"]>>>>,
     <<<<"f", [cc |-> "ra"]>>, <<"g", [cc |-> "rb"]>>>>,
     <<<<"g", [cc |-> "rb"]>>, <<"f", [cc |-> "ra"]>>>>}

Records == [unique_id : 0..NClusters, fields : RecordFields]

RecordLists == UNION {[1..n -> Records] : n \in 0..MaxRecords}

MergeArgs ==
    {[kind |-> "res", records |-> rs] : rs \in RecordLists}
    \cup {[kind |-> "files", files |-> <<f>>] :
            f \in {NoFile} \cup {PickleDump(rs) : rs \in RecordLists}}
    \cup {[kind |-> "files", files |-> <<PickleDump(<<r1>>), PickleDump(<<r2>>)>>] :
            r1 \in Records, r2 \in Records}

\* The collection before the merge: some clusters hold the field "fa" from an
\* earlier load.
MergeInit ==
    /\ \E loaded \in SUBSET (1..NClusters) :
            clusters = [i \in 1..NClusters |->
                [unique_id |-> i,
                 fields |-> IF i \in loaded
                            THEN <<<<"fa", [cc |-> "ra"]>>>> ELSE <<>>]]
    /\ resultsFile = NoFile
    /\ resultsDir = [p \in {} |-> Entry(0, EmptyDict)]
    /\ job = [j \in Jobs |-> IdleJob]
    /\ hist = HistInit
    /\ margs = NoMerge
    /\ FoldsIdle /\ ParamIdle /\ DataIdle

MergeResults ==
    /\ margs.op = "none"
    /\ \E arg \in MergeArgs, new_fieldname \in FieldNames :
        LET done == MergeResultsOf(clusters, arg, new_fieldname)
        IN  /\ clusters' = done.clusters
            /\ margs' = [op |-> "merge", arg |-> arg,
                         new_fieldname |-> new_fieldname, raised |-> done.raised]
    /\ UNCHANGED <<resultsFile, resultsDir, job, hist, foldVars, paramVars,
                 dataVars>>

SpecMerge == MergeInit /\ [][MergeResults]_vars

----------------------------------------------------------------------------
(* Clusters.build_param_str and the results paths; text is a sequence of
   one-character strings *)

DigitChars == <<"0", "1", "2", "3", "4", "5", "6", "7", "8", "9">>

RECURSIVE Digits(_)
\* str(n) for an integer n >= 0
Digits(n) ==
    IF n < 10 THEN <<DigitChars[n + 1]>>
    ELSE Digits(n \div 10) \o <<DigitChars[(n % 10) + 1]>>

RECURSIVE Join(_, _)
\* sep.join(parts)
Join(sep, parts) ==
    IF parts = <<>> THEN <<>>
    ELSE IF Len(parts) = 1 THEN parts[1]
    ELSE parts[1] \o sep \o Join(sep, Tail(parts))

\* the part of a dotted name after its last '.' (name.split('.')[-1])
LastComponent(name) ==
    LET dots == {i \in 1..Len(name) : name[i] = "."}
    IN  IF dots = {} THEN name
        ELSE SubSeq(name, (CHOOSE i \in dots : \A k \in dots : k <= i) + 1, Len(name))

\* str(value) of a parameter value that is no list and no class: a str is its
\* own text, an int its digits, a float (one decimal) digits '.' digit
StrOf(value) ==
    CASE value.kind = "str" -> value.text
      [] value.kind = "int" -> Digits(value.n)
      [] value.kind = "float" -> Digits(value.whole) \o <<".">> \o Digits(value.tenth)

\* the text build_param_str gives a parameter value (lines 480-484)
ValueText(value) ==
    CASE value.kind = "class" -> LastComponent(value.name)
      [] value.kind = "list" ->
            Join(<<"-">>, [i \in 1..Len(value.items) |-> StrOf(value.items[i])])
      [] OTHER -> StrOf(value)

\* Clusters.build_param_str(func, params): func is the function's name, params
\* the dict of parameters in order
BuildParamStr(func, params) ==
    Join(<<"-", "-">>,
         <<func>> \o [i \in 1..Len(params) |->
                        params[i][1] \o <<"=">> \o ValueText(params[i][2])])

\* PurePath.with_suffix on a file name: the name's suffix is what follows its
\* last '.', unless that dot starts or ends the name; the suffix is replaced,
\* a name without suffix gets the new one appended
WithSuffix(name, suffix) ==
    LET dots == {i \in 1..Len(name) : name[i] = "."}
        last == CHOOSE i \in dots : \A k \in dots : k <= i
    IN  IF dots # {} /\ last > 1 /\ last < Len(name)
        THEN SubSeq(name, 1, last - 1) \o suffix
        ELSE name \o suffix

Pkl == <<".", "p", "k", "l">>

\* the single results file of an analysis (lines 627-629 and 783-785), under
\* HIERARCHY_ROOT/results/<results_subdir>
SingleResultsPath(func, params) == WithSuffix(BuildParamStr(func, params), Pkl)

\* the directory of its per-cluster files (lines 623 and 804)
MultiResultsDir(func, params) == BuildParamStr(func, params)

ResultsPaths(a) ==
    [computed |-> TRUE,
     single |-> SingleResultsPath(a.func, a.params),
     multi |-> MultiResultsDir(a.func, a.params)]

NoPaths == [computed |-> FALSE, single |-> <<>>, multi |-> <<>>]

ParamValues ==
    {[kind |-> "str", text |-> <<"1", "-", "2">>],
     [kind |-> "str", text |-> <<"x">>],
     [kind |-> "str", text |-> <<"x", ".", "y">>],
     [kind |-> "int", n |-> 1],
     [kind |-> "int", n |-> 12],
     [kind |-> "float", whole |-> 0, tenth |-> 5],
     [kind |-> "float", whole |-> 0, tenth |-> 7],
     [kind |-> "list", items |-> <<[kind |-> "int", n |-> 1],
                                   [kind |-> "int", n |-> 2]>>],
     [kind |-> "list", items |-> <<[kind |-> "str", text |-> <<"x">>]>>],
     [kind |-> "class", name |-> <<"m", ".", "E">>]}

SecondValues ==
    {[kind |-> "int", n |-> 1], [kind |-> "float", whole |-> 0, tenth |-> 5]}

ParamDicts ==
    {<<<<<<"a">>, v>>>> : v \in ParamValues}
    \cup {<<<<<<"a">>, v>>, <<<<"b">>, w>>>> : v \in ParamValues, w \in SecondValues}

Analyses == [func : {<<"f">>, <<"g">>}, params : ParamDicts]

ParamInit ==
    /\ pin \in [1..2 -> Analyses]
    /\ pout = [i \in 1..2 |-> NoPaths]

\* run_analysis works out where the results of the first analysis go
RunAnalysisPaths ==
    /\ ~pout[1].computed
    /\ pout' = [pout EXCEPT ![1] = ResultsPaths(pin[1])]
    /\ UNCHANGED <<pin, runVars, foldVars, dataVars>>

\* load_results works out where the results of the second analysis are
LoadResultsPaths ==
    /\ ~pout[2].computed
    /\ pout' = [pout EXCEPT ![2] = ResultsPaths(pin[2])]
    /\ UNCHANGED <<pin, runVars, foldVars, dataVars>>

ParamNext == RunAnalysisPaths \/ LoadResultsPaths

InitParam == ParamInit /\ RunInit /\ FoldsIdle /\ DataIdle

SpecParam == InitParam /\ [][ParamNext]_vars

----------------------------------------------------------------------------
(* Clusters.__init__: the loader. The recording store holds one record per
   unit; the response tensors and sahani_quick are not part of hierarchy.py,
   so a raw unit of the model carries the signal and noise power that
   sahani_quick returns for it. *)

\* The largest number of units in the recording store.
MaxRaw == 3

AREA_ORDER == <<<<"i", "c">>, <<"m", "g", "b">>, <<"m", "g", "b", "m">>,
                <<"a", "c">>>>

UpperCase == <<"A", "B", "C", "D", "E", "F", "G", "H", "I", "J", "K", "L", "M",
               "N", "O", "P", "Q", "R", "S", "T", "U", "V", "W", "X", "Y", "Z">>

LowerCase == <<"a", "b", "c", "d", "e", "f", "g", "h", "i", "j", "k", "l", "m",
               "n", "o", "p", "q", "r", "s", "t", "u", "v", "w", "x", "y", "z">>

\* str.lower
Lower(text) ==
    [i \in 1..Len(text) |->
        IF \E k \in 1..Len(UpperCase) : UpperCase[k] = text[i]
        THEN LowerCase[CHOOSE k \in 1..Len(UpperCase) : UpperCase[k] = text[i]]
        ELSE text[i]]

\* '%03d' % n for an integer n >= 0: zero-padded to a width of at least three
Pad3(n) ==
    LET d == Digits(n)
    IN  IF Len(d) >= 3 THEN d ELSE [i \in 1..(3 - Len(d)) |-> "0"] \o d

\* the identifier built without '-e', '-p', '-c' and without padding
UniqueIdUnseparated(brain_area, expt, pen, cluster_idx) ==
    brain_area \o Digits(expt) \o Digits(pen) \o Digits(cluster_idx)

\* '%s-e%03d-p%03d-c%03d' % (brain_area, expt, pen, cluster_idx)
UniqueId(brain_area, expt, pen, cluster_idx) ==
    brain_area \o <<"-", "e">> \o Pad3(expt) \o <<"-", "p">> \o Pad3(pen)
        \o <<"-", "c">> \o Pad3(cluster_idx)

RECURSIVE ParseInt(_)
\* int(text) for a text of decimal digits
ParseInt(text) ==
    IF text = <<>> THEN 0
    ELSE 10 * ParseInt(SubSeq(text, 1, Len(text) - 1))
            + (CHOOSE k \in 0..9 : DigitChars[k + 1] = text[Len(text)])

RECURSIVE Split(_, _)
\* text.split(sep) for a one-character sep
Split(text, sep) ==
    LET at == {i \in 1..Len(text) : text[i] = sep}
    IN  IF at = {} THEN <<text>>
        ELSE <<SubSeq(text, 1, Min(at) - 1)>>
                \o Split(SubSeq(text, Min(at) + 1, Len(text)), sep)

\* stimulus['gridcode'] % params: 'type_<t>_drc<d>_dur25_contrast<c>'
GridCode(code) ==
    <<"t", "y", "p", "e", "_">> \o Digits(code.type)
        \o <<"_", "d", "r", "c">> \o Digits(code.drc)
        \o <<"_", "d", "u", "r", "2", "5", "_">>
        \o <<"c", "o", "n", "t", "r", "a", "s", "t">> \o Digits(code.contrast)

\* the stim types of STIMULI, in its order
StimuliOrder == <<12, 19, 25>>

\* stimulus_order(stim_types) for a list of stim types
GridFileCodes(stim_types) ==
    Concatenate([k \in 1..Len(StimuliOrder) |->
        IF StimuliOrder[k] \in Range(stim_types)
        THEN [i \in 1..Len(StimulusOrder(StimuliOrder[k])) |->
                GridCode(StimulusOrder(StimuliOrder[k])[i])]
        ELSE <<>>])

\* the stim_types argument as the list the constructor makes of it
StimTypesList(stim_types) ==
    CASE stim_types.kind = "str" -> <<ParseInt(stim_types.text)>>
      [] stim_types.kind = "int" -> <<stim_types.n>>
      [] stim_types.kind = "list" -> stim_types.items

\* [int(c.split('_')[1]) for c in d['gridFileCodes']], as a set
ClusterStimTypes(d) ==
    {ParseInt(Split(d.gridFileCodes[i], "_")[2]) :
        i \in 1..Len(d.gridFileCodes)}

\* the filter asking for the requested stim types and no others
PresentedOnly(stim_types, d) ==
    Range(stim_types) = ClusterStimTypes(d)

\* set(stim_types).issubset(set(cluster_stim_types))
PresentedAll(stim_types, d) ==
    Range(stim_types) \subseteq ClusterStimTypes(d)

\* the asserts of lines 338, 342 and 349: every requested grid file code is
\* found exactly once (once per light state for an optogenetic unit)
StimIdxFound(d, codes) ==
    LET Found(code, on) ==
            {i \in 1..Len(d.gridFileCodes) :
                d.gridFileCodes[i] = code /\ d.light[i] = on}
    IN  \A k \in 1..Len(codes) :
            IF d.optogenetic # 0
            THEN /\ Cardinality(Found(codes[k], FALSE)) = 1
                 /\ Cardinality(Found(codes[k], TRUE)) = 1
            ELSE Cardinality(Found(codes[k], FALSE) \cup Found(codes[k], TRUE)) = 1

\* noise_power / signal_power in numpy floats; the model's powers divide
\* evenly. An optogenetic unit with no signal power gets NaN explicitly.
NoiseRatio(opto, signal_power, noise_power) ==
    IF signal_power = 0
    THEN IF opto \/ noise_power = 0 THEN [kind |-> "nan", v |-> 0]
                                     ELSE [kind |-> "inf", v |-> 0]
    ELSE [kind |-> "num", v |-> noise_power \div signal_power]

\* list.index giving the last place of x
IndexOfLast(s, x) == (CHOOSE i \in 1..Len(s) :
                        s[i] = x /\ \A j \in (i + 1)..Len(s) : s[j] # x) - 1

\* list.index
IndexOf(s, x) == Min({i \in 1..Len(s) : s[i] = x}) - 1

\* all_pen_info after the unit d has been seen
SeenPen(pens, d) ==
    IF <<d.expt, d.pen>> \in Range(pens) THEN pens
    ELSE Append(pens, <<d.expt, d.pen>>)

\* a unit's penetration going unrecorded until the unit is kept
NotePenLater(pens, d) == pens

\* lines 293-294: the penetration of every unit read is recorded, before the
\* unit is kept or skipped
NotePen(pens, d) == SeenPen(pens, d)

\* The dict of a unit that is kept: the raw fields and those of lines 326-403.
\* pens is all_pen_info at that point.
LoadedCluster(d, pens) ==
    LET brain_area == Lower(d.brainArea)
        opto == (d.optogenetic # 0)
        anaesthetised == (d.anaesthetised = 1)
        all_pen_info == SeenPen(pens, d)
    IN  [brainArea |-> d.brainArea,
         expt |-> d.expt,
         pen |-> d.pen,
         clusterIdx |-> d.clusterIdx,
         gridFileCodes |-> d.gridFileCodes,
         optogenetic |-> opto,
         signal_power |-> d.signal_power,
         noise_power |-> d.noise_power,
         noiseratio |-> NoiseRatio(opto, d.signal_power, d.noise_power),
         brain_area |-> brain_area,
         cluster_idx |-> d.clusterIdx,
         unique_id |-> UniqueId(brain_area, d.expt, d.pen, d.clusterIdx),
         unique_penetration_idx |->
            IndexOf(all_pen_info, <<d.expt, d.pen>>) + 1,
         anaesthetised |-> anaesthetised,
         awake |-> ~anaesthetised,
         state |-> IF anaesthetised THEN "anaesthetised" ELSE "awake"]

RECURSIVE LoadLoop(_, _, _, _)
\* the loop of lines 289-407 over the units not yet read
LoadLoop(rest, stim_types, pens, kept) ==
    IF rest = <<>> THEN [status |-> "ok", clusters |-> kept, all_pen_info |-> pens]
    ELSE LET d == Head(rest)
             seen == NotePen(pens, d)
         IN  IF ~PresentedAll(stim_types, d)
             THEN LoadLoop(Tail(rest), stim_types, seen, kept)
             ELSE IF ~StimIdxFound(d, GridFileCodes(stim_types))
             THEN [status |-> "AssertionError", clusters |-> <<>>,
                   all_pen_info |-> seen]
             ELSE LoadLoop(Tail(rest), stim_types, seen,
                           Append(kept, LoadedCluster(d, seen)))

\* Clusters(stim_types): the object, or the exception the constructor ends in.
\* Sorting the brain areas by AREA_ORDER.index fails for an unknown area.
NewClusters(units, stim_types) ==
    LET types == StimTypesList(stim_types)
        loaded == LoadLoop(units, types, <<>>, <<>>)
    IN  IF loaded.status # "ok"
        THEN [status |-> loaded.status, request |-> stim_types]
        ELSE IF \E i \in 1..Len(loaded.clusters) :
                    loaded.clusters[i].brain_area \notin Range(AREA_ORDER)
        THEN [status |-> "ValueError", request |-> stim_types]
        ELSE [status |-> "ok",
              request |-> stim_types,
              stim_types |-> types,
              clusters |-> loaded.clusters,
              n_clusters |-> Len(loaded.clusters),
              all_pen_info |-> loaded.all_pen_info]

\* A raw unit for which the listed stim types were presented in full; an
\* optogenetic unit has every grid twice, light off and light on.
RawUnit(area, expt, pen, idx, types, opto, anaesthetised, signal, noise) ==
    LET codes == GridFileCodes(types)
    IN  [brainArea |-> area, expt |-> expt, pen |-> pen, clusterIdx |-> idx,
         gridFileCodes |-> IF opto = 1 THEN codes \o codes ELSE codes,
         light |-> IF opto = 1
                   THEN [i \in 1..(2 * Len(codes)) |-> i > Len(codes)]
                   ELSE [i \in 1..Len(codes) |-> FALSE],
         optogenetic |-> opto, anaesthetised |-> anaesthetised,
         signal_power |-> signal, noise_power |-> noise]

\* a unit that was played only part of the stim-12 grids
PartUnit ==
    LET u == RawUnit(<<"i", "c">>, 1, 2, 7, <<12>>, 0, 1, 1, 1)
    IN  [u EXCEPT !.gridFileCodes = Tail(@), !.light = Tail(@)]

\* The units a recording store of the model is made of.
RawUnits ==
    {RawUnit(<<"I", "C">>, 1, 1, 1, <<12>>, 0, 1, 1, 1),
     RawUnit(<<"i", "c">>, 1, 1, 1, <<12, 19>>, 0, 0, 1, 3),
     RawUnit(<<"m", "g", "b">>, 1, 1, 1, <<19>>, 0, 1, 0, 0),
     RawUnit(<<"A", "C">>, 1000, 1, 2, <<12>>, 1, 0, 0, 1),
     RawUnit(<<"i", "c">>, 12, 3, 1, <<12, 25>>, 0, 1, 2, 2),
     RawUnit(<<"i", "c">>, 1, 23, 1, <<12, 19>>, 0, 0, 0, 2),
     RawUnit(<<"i", "c">>, 1, 1, 2, <<12>>, 1, 1, 1, 3),
     RawUnit(<<"c", "n">>, 2, 1, 1, <<12>>, 0, 1, 1, 1),
     PartUnit}

\* recording stores: up to MaxRaw different units, in any order
RawFiles ==
    UNION {{f \in [1..n -> RawUnits] :
                \A i \in 1..n : \A j \in 1..n : f[i] = f[j] => i = j} :
           n \in 0..MaxRaw}

\* the stim_types the constructor is called with: an int, a str, lists
Requests ==
    {[kind |-> "int", n |-> 12],
     [kind |-> "str", text |-> <<"1", "9">>],
     [kind |-> "list", items |-> <<12>>],
     [kind |-> "list", items |-> <<12, 19>>],
     [kind |-> "list", items |-> <<25>>]}

LoaderInit ==
    /\ raw \in RawFiles
    /\ db = NotConstructed
    /\ qcall = NoQuery
    /\ qret = NoQuery

Construct ==
    /\ db.status = "none"
    /\ \E stim_types \in Requests : db' = NewClusters(raw, stim_types)
    /\ UNCHANGED <<raw, qcall, qret, runVars, foldVars, paramVars>>

InitLoader == LoaderInit /\ RunInit /\ FoldsIdle /\ ParamIdle

SpecLoader == InitLoader /\ [][Construct]_vars

----------------------------------------------------------------------------
(* Queries on the loaded collection. A cluster is a dict, modelled as a
   function from its keys; a keyword 'exclude_<key>' of select_data is the
   pair of the flag exclude and the key. *)

\* key in cluster
HasField(c, key) == key \in DOMAIN c

\* cluster[key] = value, adding the key if the cluster lacks it
WithField(c, key, value) ==
    [k \in (DOMAIN c) \cup {key} |-> IF k = key THEN value ELSE c[k]]

\* The one analysis result that is merged into clusters, and its field name.
ResultField == "fa"
ResultValue == [cc |-> "ra"]

\* A value given for a keyword is '*' or a value of the key's own type.
Star == [star |-> TRUE]

Val(v) == [star |-> FALSE, v |-> v]

\* x in vals
InVals(x, vals) == \E i \in 1..Len(vals) : ~vals[i].star /\ vals[i].v = x

\* isnan(x) and x <= v for a noiseratio x; no comparison with NaN is true and
\* infinity is above every number
IsNan(x) == x.kind = "nan"

LessEq(x, v) == x.kind = "num" /\ x.v <= v

GreaterOrEqual(x, v) == x.kind = "inf" \/ (x.kind = "num" /\ x.v >= v)

Greater(x, v) == x.kind = "inf" \/ (x.kind = "num" /\ x.v > v)

\* vals not in ['inf', np.inf]
IsThreshold(noiseratio) == noiseratio.kind = "num"

RECURSIVE SelectLoop(_, _)
\* the loop of select_data over the keywords not yet applied
SelectLoop(cs, kwargs) ==
    IF kwargs = <<>> THEN [status |-> "ok", value |-> cs]
    ELSE LET kw == Head(kwargs)[1]
             vals == Head(kwargs)[2]
             NotNan(c) == ~IsNan(c.noiseratio)
             Below(c) == LessEq(c.noiseratio, vals.v)
             items == IF vals.kind = "list" THEN vals.items ELSE <<vals.v>>
             Has(c) == HasField(c, kw.key)
             In(c) == InVals(c[kw.key], items)
             NotIn(c) == ~InVals(c[kw.key], items)
             lacking == \E i \in 1..Len(cs) : ~Has(cs[i])
         IN  IF ~kw.exclude /\ kw.key = "noiseratio"
             THEN IF IsThreshold(vals)
                  THEN SelectLoop(SelectSeq(SelectSeq(cs, NotNan), Below),
                                  Tail(kwargs))
                  ELSE SelectLoop(cs, Tail(kwargs))
             ELSE IF kw.exclude
             THEN IF lacking THEN [status |-> "KeyError", value |-> <<>>]
                  ELSE SelectLoop(SelectSeq(cs, NotIn), Tail(kwargs))
             ELSE IF items = <<>>
             THEN [status |-> "IndexError", value |-> <<>>]
             ELSE IF items[1].star
             THEN SelectLoop(SelectSeq(cs, Has), Tail(kwargs))
             ELSE IF lacking THEN [status |-> "KeyError", value |-> <<>>]
             ELSE SelectLoop(SelectSeq(cs, In), Tail(kwargs))

\* Clusters.select_data(**kwargs)
SelectDataOf(cs, kwargs) == SelectLoop(cs, kwargs)

\* Clusters.get_sorted(**kwargs)
GetSortedOf(cs, kwargs) ==
    IF Len(kwargs) > 1
    THEN [status |-> "ValueError: Can only sort clusters by a single key",
          value |-> <<>>]
    ELSE IF kwargs = <<>> THEN [status |-> "IndexError", value |-> <<>>]
    ELSE LET key == kwargs[1][1]
             wanted == kwargs[1][2]
         IN  IF \E i \in 1..Len(cs) : ~HasField(cs[i], key)
             THEN [status |-> "KeyError", value |-> <<>>]
             ELSE LET vals == [i \in 1..Len(cs) |-> cs[i][key]]
                  IN  IF \E j \in 1..Len(wanted) : wanted[j] \notin Range(vals)
                      THEN [status |-> "ValueError: not in list", value |-> <<>>]
                      ELSE [status |-> "ok",
                            value |-> [j \in 1..Len(wanted) |->
                                        cs[IndexOf(vals, wanted[j]) + 1]]]

\* Clusters.get_data(idx). self.clusters[idx] is the dict that line 290 took
\* from the raw record and line 407 stored; a dict has no attribute __dict__.
GetDataOf(cs, idx) ==
    IF idx >= Len(cs) \/ idx < 0 - Len(cs)
    THEN [status |-> "IndexError", value |-> <<>>]
    ELSE [status |-> "AttributeError", value |-> <<>>]

\* the state argument of find_missing_results after lines 901-902
StatesAsked(state) ==
    IF state.kind = "none" \/ (state.kind = "list" /\ state.items = <<>>)
    THEN [kind |-> "list", items |-> <<"anaesthetised", "awake">>]
    ELSE state

\* line 909: cluster['state'] != state and cluster['state'] not in state. For
\* a str argument 'not in' is the substring test, which for the two state
\* names is the same as inequality.
WrongState(c, state) ==
    IF state.kind = "str" THEN c.state # state.v
    ELSE c.state \notin Range(state.items)

\* lines 916-918
AboveThreshold(c, noiseratio) ==
    /\ IsThreshold(noiseratio)
    /\ (IsNan(c.noiseratio) \/ Greater(c.noiseratio, noiseratio.v))

RECURSIVE FindLoop(_, _, _, _, _, _, _)
\* the loop of find_missing_results over the clusters not yet looked at
FindLoop(cs, fieldname, noiseratio, state, optogenetic, missing, n_found) ==
    IF cs = <<>> THEN [status |-> "ok", missing |-> missing, n_found |-> n_found]
    ELSE LET cluster == Head(cs)
         IN  IF \/ WrongState(cluster, state)
                \/ (optogenetic /\ ~cluster.optogenetic)
                \/ AboveThreshold(cluster, noiseratio)
             THEN FindLoop(Tail(cs), fieldname, noiseratio, state, optogenetic,
                           missing, n_found)
             ELSE IF HasField(cluster, fieldname)
             THEN FindLoop(Tail(cs), fieldname, noiseratio, state, optogenetic,
                           missing, n_found + 1)
             ELSE FindLoop(Tail(cs), fieldname, noiseratio, state, optogenetic,
                           Append(missing, cluster.unique_id), n_found)

\* Clusters.find_missing_results(fieldname, noiseratio, state, optogenetic)
FindMissingResultsOf(cs, fieldname, noiseratio, state, optogenetic) ==
    FindLoop(cs, fieldname, noiseratio, StatesAsked(state), optogenetic, <<>>, 0)

\* The arguments the queries are called with.
Key(k) == [exclude |-> FALSE, key |-> k]

Exclude(k) == [exclude |-> TRUE, key |-> k]

Scalar(v) == [kind |-> "scalar", v |-> v]

List(items) == [kind |-> "list", items |-> items]

Ic == <<"i", "c">>
Mgb == <<"m", "g", "b">>
Ac == <<"a", "c">>

\* the noise ratio threshold the queries are given
Threshold == [kind |-> "num", v |-> 1]

NoThreshold == {[kind |-> "inf_str", v |-> 0], [kind |-> "inf", v |-> 0]}

SelectCriteria ==
    {<<Key("brain_area"), Scalar(Val(Ic))>>,
     <<Key("brain_area"), List(<<Val(Ic), Val(Mgb)>>)>>,
     <<Key("brain_area"), List(<<>>)>>,
     <<Key("brain_area"), List(<<Star, Val(Ic)>>)>>,
     <<Key("state"), List(<<Val("awake")>>)>>,
     <<Exclude("brain_area"), List(<<Val(Ic)>>)>>,
     <<Exclude("unique_penetration_idx"), List(<<>>)>>,
     <<Exclude("state"), Scalar(Val("awake"))>>,
     <<Key(ResultField), Scalar(Star)>>,
     <<Key(ResultField), List(<<Val(ResultValue)>>)>>,
     <<Key("noiseratio"), Threshold>>}
    \cup {<<Key("noiseratio"), n>> : n \in NoThreshold}

\* select_data is given no, one or two keywords; the second is one of those
\* that mark_excluded_units and get_all_y_t combine with another
SelectKwargs ==
    {<<>>} \cup {<<a>> : a \in SelectCriteria}
    \cup {<<a, b>> : a \in SelectCriteria,
                     b \in {<<Key("noiseratio"), Threshold>>,
                            <<Key("state"), List(<<Val("awake")>>)>>}}

SortKwargs ==
    {<<>>,
     <<<<"brain_area", <<Ic>>>>>>,
     <<<<"brain_area", <<Ac, Ic>>>>>>,
     <<<<"brain_area", <<Ic, Ic, Ac>>>>>>,
     <<<<"brain_area", <<Mgb>>>>>>,
     <<<<"brain_area", <<>>>>>>,
     <<<<"state", <<"awake", "anaesthetised">>>>>>,
     <<<<"unique_penetration_idx", <<2, 1>>>>>>,
     <<<<ResultField, <<ResultValue>>>>>>,
     <<<<"brain_area", <<Ic>>>>, <<"state", <<"awake">>>>>>}

StateArgs ==
    {[kind |-> "none"],
     [kind |-> "str", v |-> "awake"],
     [kind |-> "str", v |-> "anaesthetised"],
     [kind |-> "list", items |-> <<>>],
     [kind |-> "list", items |-> <<"awake">>],
     [kind |-> "list", items |-> <<"anaesthetised", "awake">>]}

\* The queries leave the object as it is, so a behaviour builds the object,
\* may merge results into it, and makes one query.

\* Clusters(): the constructor with its default stim_types=12
ConstructDefault ==
    /\ db.status = "none"
    /\ db' = NewClusters(raw, [kind |-> "int", n |-> 12])
    /\ UNCHANGED <<raw, qcall, qret, runVars, foldVars, paramVars>>

\* merge_results(res, new_fieldname) in this representation: res holds one
\* record per cluster of 'found', and each gets cluster[new_fieldname]
MergeField ==
    /\ db.status = "ok" /\ qcall = NoQuery
    /\ \A i \in 1..Len(db.clusters) : ~HasField(db.clusters[i], ResultField)
    /\ \E found \in (SUBSET (1..Len(db.clusters))) \ {{}} :
        db' = [db EXCEPT !.clusters =
                [i \in 1..Len(db.clusters) |->
                    IF i \in found
                    THEN WithField(db.clusters[i], ResultField, ResultValue)
                    ELSE db.clusters[i]]]
    /\ UNCHANGED <<raw, qcall, qret, runVars, foldVars, paramVars>>

SelectData ==
    /\ db.status = "ok" /\ qcall = NoQuery
    /\ \E kwargs \in SelectKwargs :
        /\ qcall' = [op |-> "select_data", kwargs |-> kwargs]
        /\ qret' = SelectDataOf(db.clusters, kwargs)
    /\ UNCHANGED <<raw, db, runVars, foldVars, paramVars>>

GetSorted ==
    /\ db.status = "ok" /\ qcall = NoQuery
    /\ \E kwargs \in SortKwargs :
        /\ qcall' = [op |-> "get_sorted", kwargs |-> kwargs]
        /\ qret' = GetSortedOf(db.clusters, kwargs)
    /\ UNCHANGED <<raw, db, runVars, foldVars, paramVars>>

GetData ==
    /\ db.status = "ok" /\ qcall = NoQuery
    /\ \E idx \in (0 - 1)..MaxRaw :
        /\ qcall' = [op |-> "get_data", idx |-> idx]
        /\ qret' = GetDataOf(db.clusters, idx)
    /\ UNCHANGED <<raw, db, runVars, foldVars, paramVars>>

FindMissingResults ==
    /\ db.status = "ok" /\ qcall = NoQuery
    /\ \E noiseratio \in {Threshold} \cup NoThreshold, state \in StateArgs,
          optogenetic \in BOOLEAN :
        /\ qcall' = [op |-> "find_missing_results", fieldname |-> ResultField,
                     noiseratio |-> noiseratio, state |-> state,
                     optogenetic |-> optogenetic]
        /\ qret' = FindMissingResultsOf(db.clusters, ResultField, noiseratio,
                                        state, optogenetic)
    /\ UNCHANGED <<raw, db, runVars, foldVars, paramVars>>

QueryNext ==
    \/ ConstructDefault
    \/ MergeField
    \/ SelectData
    \/ GetSorted
    \/ GetData
    \/ FindMissingResults

SpecQuery == InitLoader /\ [][QueryNext]_vars

----------------------------------------------------------------------------
(* Properties of the k-fold partitioner *)

\* get_indices returned, for a subset that exists and an integer k_folds >= 2
KFoldCall ==
    /\ fout.status # "pending"
    /\ HasIndices(fin.stim)
    /\ fin.k_folds.kind = "int" /\ fin.k_folds.n >= 2

\* C1: for every named index subset and every integer k_folds >= 2, no
\* (train, test) pair that get_indices builds has an index in both its train
\* set and its test set, and the no-overlap assertion does not fail.
C1_TrainTestDisjoint ==
    KFoldCall =>
        /\ fout.status # "AssertionError: overlap"
        /\ \A i \in 1..Len(fout.folds) :
                \A a \in 1..Len(fout.folds[i].train) :
                    \A b \in 1..Len(fout.folds[i].test) :
                        fout.folds[i].train[a] # fout.folds[i].test[b]

\* a k-fold call returned several folds, one of them with both sets non-empty
C1_Witness ==
    /\ KFoldCall /\ fout.status = "ok" /\ Len(fout.folds) >= 2
    /\ \E i \in 1..Len(fout.folds) :
            fout.folds[i].train # <<>> /\ fout.folds[i].test # <<>>

\* the number of places at which x occurs in the test sets of the folds
TestOccurrences(folds, x) ==
    Sum([i \in 1..Len(folds) |->
            Cardinality({b \in 1..Len(folds[i].test) : folds[i].test[b] = x})])

\* C2: for every named index subset and every integer k_folds >= 2, every
\* index of the subset is in exactly one test set of the k folds, the test sets
\* hold nothing else, and the coverage assertion does not fail.
C2_TestSetsCoverSubset ==
    KFoldCall =>
        /\ fout.status # "AssertionError: coverage"
        /\ (fout.status = "ok" /\ fin.include = {}) =>
            LET idxes == Indices(fin.stim)[fin.spec]
            IN  /\ Len(fout.folds) = fin.k_folds.n
                /\ \A p \in 1..Len(idxes) :
                        TestOccurrences(fout.folds, idxes[p]) = 1
                /\ \A i \in 1..Len(fout.folds) :
                        Range(fout.folds[i].test) \subseteq Range(idxes)

\* all folds were returned for a subset that k_folds does not divide
C2_Witness ==
    /\ KFoldCall /\ fout.status = "ok" /\ fin.include = {}
    /\ Len(Indices(fin.stim)[fin.spec]) % fin.k_folds.n # 0
    /\ \A i \in 1..Len(fout.folds) : fout.folds[i].test # <<>>

----------------------------------------------------------------------------
(* Properties of the result cache *)

\* the entry saved for (unique_id, result) g is in the single results file
InResultsFile(g) ==
    /\ resultsFile.exists
    /\ \E k \in 1..Len(resultsFile.data) :
            resultsFile.data[k] = Entry(g[1], g[2])

\* the entry saved for g is in its per-cluster file
InResultsDir(g) ==
    /\ PathExists(resultsDir, PerClusterPath(g[1]))
    /\ resultsDir[PerClusterPath(g[1])] = Entry(g[1], g[2])

Persisted(jb, g) == IF jb.multi THEN InResultsDir(g) ELSE InResultsFile(g)

\* C3 as stated: over the completed calls with save_results=True and
\* ignore_existing=False, in either mode, func is invoked at most once for
\* each cluster.
C3_FuncInvokedAtMostOnce == hist.twice = {}

\* C3 as amended: once a completed call has got a truthy result from func for
\* a cluster, no later completed call of the same mode invokes func for that
\* cluster again.
C3_NoInvocationAfterResult == hist.again = {}

\* a call passed, without invoking func, a cluster an earlier completed call
\* had a result for
C3_Witness ==
    /\ hist.resuming /\ job[1].pc = "loop" /\ job[1].save
    /\ \E k \in 1..job[1].i :
            /\ JobSegment(1)[k].unique_id \in hist.sat[ModeOf(job[1])]
            /\ JobSegment(1)[k].unique_id \notin job[1].called

NoDuplicateIds(res) ==
    \A a, b \in 1..Len(res) : res[a].unique_id = res[b].unique_id => a = b

\* the entries a single-file call adds: one for each cluster of its segment,
\* in the segment's order, that the old list had no entry for and func
\* returned a truthy result for
NewEntries(jb, seg, old) ==
    LET IsNew(c) == /\ c.unique_id \notin Range(ProcessedIds(old))
                    /\ \E g \in jb.got : g[1] = c.unique_id
        new == SelectSeq(seg, IsNew)
    IN  [k \in 1..Len(new) |->
            Entry(new[k].unique_id,
                  (CHOOSE g \in jb.got : g[1] = new[k].unique_id)[2])]

\* C4: in single-file mode with ignore_existing=False, the list run_analysis
\* writes is the previous file's list, unchanged and in the same order,
\* followed by one new entry for each cluster of the segment that had no entry
\* and got a truthy result; no unique_id occurs twice in it.
C4_ResumeKeepsEarlierEntries ==
    [][(/\ job[1].pc = "loop" /\ job'[1].pc = "done"
        /\ job[1].save /\ ~job[1].multi /\ ~job[1].ignore)
       => LET old == IF resultsFile.exists THEN resultsFile.data ELSE <<>>
          IN  /\ resultsFile'.exists
              /\ resultsFile'.data = old \o NewEntries(job[1], JobSegment(1), old)
              /\ NoDuplicateIds(resultsFile'.data)]_vars

\* a resuming call wrote a list that holds earlier entries and new ones
C4_Witness ==
    /\ job[1].pc = "done" /\ job[1].save /\ ~job[1].multi /\ ~job[1].ignore
    /\ job[1].got # {}
    /\ resultsFile.exists
    /\ Len(resultsFile.data) > Cardinality(job[1].got)

\* C5: when a run_analysis call with save_results=True is aborted partway
\* (func raises with fail_on_error, or the job is killed), the results
\* computed for earlier clusters are already persisted, in either mode.
C5_AbortKeepsEarlierResults ==
    \A j \in Jobs :
        (job[j].pc = "aborted" /\ job[j].save) =>
            \A g \in job[j].got : Persisted(job[j], g)

\* C6: when the segments of one analysis are processed by separate jobs in
\* single-file mode with ignore_existing=False, the results file after all
\* jobs finished holds the entries every job produced.
C6_AllJobsEntriesAssembled ==
    (\A j \in Jobs : /\ job[j].pc = "done"
                     /\ job[j].save /\ ~job[j].multi /\ ~job[j].ignore)
    => \A j \in Jobs : \A g \in job[j].got : InResultsFile(g)

\* C7: in multiple-results-files mode the jobs of disjoint segments write
\* disjoint per-cluster files: no job writes a file that exists or that
\* another job wrote, every file holds what its job stored, and after all jobs
\* finished the files are the union of what each job wrote for its segment.
C7_JobsWriteDisjointFiles ==
    /\ \A j \in Jobs : job[j].overwrote = {}
    /\ \A j, k \in Jobs : j # k => job[j].wrote \cap job[k].wrote = {}
    /\ DOMAIN resultsDir = UNION {job[j].wrote : j \in Jobs}
    /\ \A j \in Jobs : job[j].multi => \A g \in job[j].got : InResultsDir(g)
    /\ (\A j \in Jobs : job[j].pc = "done" /\ job[j].save /\ job[j].multi)
       => DOMAIN resultsDir =
            {PerClusterPath(g[1]) : g \in UNION {job[j].got : j \in Jobs}}

\* every job ran in multiple-files mode to its end and wrote a file
C7_Witness ==
    \A j \in Jobs :
        job[j].pc = "done" /\ job[j].save /\ job[j].multi /\ job[j].wrote # {}

\* the two analyses differ in the function name or in the value of a parameter
\* (the parameters' names being the same)
AnalysesDiffer ==
    \/ pin[1].func # pin[2].func
    \/ /\ Len(pin[1].params) = Len(pin[2].params)
       /\ \A i \in 1..Len(pin[1].params) :
            pin[1].params[i][1] = pin[2].params[i][1]
       /\ \E i \in 1..Len(pin[1].params) :
            pin[1].params[i][2] # pin[2].params[i][2]

\* C8: two analyses that differ in the function name or in the value of any
\* parameter are stored under different results paths, the single results
\* file and the directory of per-cluster files alike.
C8_DifferentAnalysesDifferentPaths ==
    (pout[1].computed /\ pout[2].computed /\ AnalysesDiffer)
    => /\ pout[1].single # pout[2].single
       /\ pout[1].multi # pout[2].multi

LoadStep == margs.op = "none" /\ margs'.op = "load"

\* the result saved in the single results file for a unique_id
SavedResult(uid) ==
    Get(resultsFile.data[Min({k \in 1..Len(resultsFile.data) :
                                resultsFile.data[k].unique_id = uid})].fields,
        FuncName)

\* a result as load_results stores it: the saved result and the two keys
ExtendsSaved(stored, saved) ==
    /\ DOMAIN stored = (DOMAIN saved) \cup {"analysis_func", "analysis_params"}
    /\ \A k \in DOMAIN saved : stored[k] = saved[k]
    /\ stored["analysis_func"] = AnalysisFunc
    /\ stored["analysis_params"] = AnalysisParams

\* C9: after run_analysis saved results in the single results file,
\* load_results(func, params, fieldname) sets cluster[fieldname], for exactly
\* the clusters that have a saved entry, to the saved result extended with
\* 'analysis_func' and 'analysis_params'; the other clusters are unchanged.
C9_LoadReturnsSavedResults ==
    [][(LoadStep /\ resultsFile.exists /\ resultsFile.data # <<>>)
       => LET fn == IF margs'.fieldname # "" THEN margs'.fieldname
                    ELSE AnalysisFieldname
          IN  /\ Len(clusters') = Len(clusters)
              /\ \A i \in 1..Len(clusters) :
                    IF clusters[i].unique_id \in Range(ProcessedIds(resultsFile.data))
                    THEN /\ clusters'[i].unique_id = clusters[i].unique_id
                         /\ Keys(clusters'[i].fields) = <<fn>>
                         /\ ExtendsSaved(Get(clusters'[i].fields, fn),
                                         SavedResult(clusters[i].unique_id))
                    ELSE clusters'[i] = clusters[i]]_vars

\* results were loaded from a single results file that has an entry for one
\* cluster and none for another
C9_Witness ==
    /\ margs.op = "load" /\ margs.fieldname = "fa"
    /\ resultsFile.exists
    /\ \E i \in 1..Len(clusters) : HasKey(clusters[i].fields, "fa")
    /\ \E i \in 1..Len(clusters) :
            /\ ~HasKey(clusters[i].fields, "fa")
            /\ PathExists(resultsDir, PerClusterPath(clusters[i].unique_id))

MergeStep == margs.op = "none" /\ margs'.op = "merge"

\* the records of a list that carry one unique_id, in the list's order
RecordsFor(records, uid) ==
    LET Mine(r) == r.unique_id = uid IN SelectSeq(records, Mine)

\* the value of key k in the last of the records that has it
LastValue(records, k) ==
    LET Has(r) == HasKey(r.fields, k)
        with == SelectSeq(records, Has)
    IN  Get(with[Len(with)].fields, k)

KeysOfAll(records) ==
    UNION {Range(Keys(records[i].fields)) : i \in 1..Len(records)}

\* C10: for a list of records whose unique_ids all exist in the collection,
\* merge_results stores each record's payload (its first field other than
\* unique_id) under new_fieldname in the cluster with the same unique_id, or,
\* without a new_fieldname, copies all of the record's fields into it; of
\* several records with one unique_id the last wins; clusters in no record
\* are unchanged, as are the number and the order of the clusters.
C10_MergeByUniqueId ==
    [][(/\ MergeStep /\ margs'.arg.kind = "res"
        /\ \A i \in 1..Len(margs'.arg.records) :
            /\ FindCluster(clusters, margs'.arg.records[i].unique_id) # 0
            /\ margs'.new_fieldname # "" => margs'.arg.records[i].fields # <<>>)
       => /\ Len(clusters') = Len(clusters)
          /\ \A i \in 1..Len(clusters) :
                LET mine == RecordsFor(margs'.arg.records, clusters[i].unique_id)
                    nf == margs'.new_fieldname
                    old == clusters[i].fields
                    new == clusters'[i].fields
                    touched == IF nf # "" THEN {nf} ELSE KeysOfAll(mine)
                IN  /\ clusters'[i].unique_id = clusters[i].unique_id
                    /\ IF mine = <<>> THEN new = old
                       ELSE /\ Range(Keys(new)) = Range(Keys(old)) \cup touched
                            /\ \A k \in Range(Keys(old)) \ touched :
                                    Get(new, k) = Get(old, k)
                            /\ IF nf # ""
                               THEN Get(new, nf) = mine[Len(mine)].fields[1][2]
                               ELSE \A k \in touched :
                                        Get(new, k) = LastValue(mine, k)]_vars

\* two records with one unique_id and different payloads were merged under a
\* new fieldname, and a cluster in no record keeps its field
C10_Witness ==
    /\ margs.op = "merge" /\ margs.arg.kind = "res" /\ ~margs.raised
    /\ margs.new_fieldname = "fa"
    /\ Len(margs.arg.records) = 2
    /\ margs.arg.records[1].unique_id = margs.arg.records[2].unique_id
    /\ margs.arg.records[1].fields[1][2] # margs.arg.records[2].fields[1][2]
    /\ \E i \in 1..Len(clusters) :
            /\ clusters[i].unique_id # margs.arg.records[1].unique_id
            /\ HasKey(clusters[i].fields, "fa")
    /\ Get(clusters[FindCluster(clusters, margs.arg.records[1].unique_id)].fields, "fa")
            = margs.arg.records[2].fields[1][2]

----------------------------------------------------------------------------
(* Further properties of the k-fold partitioner and of the index subsets *)

\* C17: for an integer k_folds >= 2, get_indices with a non-empty
\* fold_idxes_to_include returns exactly the folds of the full k-fold split
\* whose 0-based position is in fold_idxes_to_include, in ascending position
\* (positions >= k_folds select nothing); with fold_idxes_to_include None or
\* empty it returns all k_folds folds.
C17_SelectedFoldsByPosition ==
    (KFoldCall /\ fout.status = "ok") =>
        LET full == BuildFolds(ArraySplit(Indices(fin.stim)[fin.spec],
                                          fin.k_folds.n))
            pos == SortedSeq({i \in fin.include : i < fin.k_folds.n})
        IN  /\ Len(full) = fin.k_folds.n
            /\ fin.include = {} => fout.folds = full
            /\ fin.include # {} =>
                    /\ Len(fout.folds) = Len(pos)
                    /\ \A j \in 1..Len(pos) : fout.folds[j] = full[pos[j] + 1]

\* some but not all folds were selected, one position asked for being past
\* the last fold
C17_Witness ==
    /\ KFoldCall /\ fout.status = "ok"
    /\ \E i \in fin.include : i >= fin.k_folds.n
    /\ 0 \in fin.include
    /\ Len(fout.folds) >= 1 /\ Len(fout.folds) < fin.k_folds.n

\* the position of time bin t (0-based) from the onset of the segment it is in
FromOnset(stimType, t) ==
    LET lens == SegmentLengths(stimType)
        Onset(g) == Sum(SubSeq(lens, 1, g - 1))
        seg == CHOOSE g \in 1..Len(lens) : Onset(g) <= t /\ t < Onset(g) + lens[g]
    IN  t - Onset(seg)

\* C18: for stim types [12] and [19], valid20/all is exactly the time bins
\* whose position from the onset of their own segment is >= 20, ascending, and
\* valid20/lo and valid20/hi are its intersections with all/lo and all/hi.
C18_Valid20DropsTwentyChords ==
    (fout.status # "pending" /\ fin.stim \in {12, 19}) =>
        LET idxes == Indices(fin.stim)
            n_t == Sum(SegmentLengths(fin.stim))
            valid == {t \in 0..(n_t - 1) : FromOnset(fin.stim, t) >= NDrop}
        IN  /\ idxes[<<"valid20", "all">>] = SortedSeq(valid)
            /\ idxes[<<"valid20", "lo">>] =
                    SortedSeq(valid \cap Range(idxes[<<"all", "lo">>]))
            /\ idxes[<<"valid20", "hi">>] =
                    SortedSeq(valid \cap Range(idxes[<<"all", "hi">>]))

\* get_indices handed out a non-empty valid20 subset of stim type 19, which
\* starts at the 21st bin of the first segment
C18_Witness ==
    /\ fout.status = "ok" /\ fin.stim = 19 /\ fin.spec[1] = "valid20"
    /\ fin.k_folds.kind = "all_train"
    /\ fout.folds[1].train # <<>>
    /\ fout.folds[1].train[1] = NDrop

\* C20: with k_folds = 'all_train' get_indices returns exactly one pair, whose
\* train set is the whole named subset and whose test set is empty, whatever
\* fold_idxes_to_include is.
C20_AllTrainUsesWholeSubset ==
    (fout.status # "pending" /\ HasIndices(fin.stim)
        /\ fin.k_folds.kind = "all_train") =>
        /\ fout.status = "ok"
        /\ fout.folds = <<[train |-> Indices(fin.stim)[fin.spec],
                           test |-> <<>>]>>

\* an 'all_train' call that was given folds to include returned a subset
C20_Witness ==
    /\ fout.status = "ok" /\ fin.k_folds.kind = "all_train"
    /\ fin.include # {}
    /\ fout.folds[1].train # <<>>

----------------------------------------------------------------------------
(* Properties of the loader *)

Constructed == db.status = "ok"

\* the text after the first character
Rest(text) == SubSeq(text, 2, Len(text))

\* unique_id is the area and three fields 'e..', 'p..', 'c..' joined by '-',
\* the fields holding the decimal digits of expt, pen and cluster_idx, each
\* exactly three characters wide (exact) or zero-padded to at least three
IdFormat(c, exact) ==
    LET part == Split(c.unique_id, "-")
        Field(text, letter, n) ==
            /\ text # <<>> /\ text[1] = letter
            /\ \A i \in 2..Len(text) : text[i] \in Range(DigitChars)
            /\ ParseInt(Rest(text)) = n
            /\ Len(Rest(text)) =
                    (IF ~exact /\ Len(Digits(n)) > 3 THEN Len(Digits(n)) ELSE 3)
    IN  /\ Len(part) = 4
        /\ part[1] = Lower(c.brainArea)
        /\ Field(part[2], "e", c.expt)
        /\ Field(part[3], "p", c.pen)
        /\ Field(part[4], "c", c.clusterIdx)

\* two loaded clusters have the same unique_id exactly if they agree in
\* lower-cased brain area, expt, pen and cluster_idx
IdsIdentify ==
    \A i \in 1..Len(db.clusters) : \A j \in 1..Len(db.clusters) :
        LET a == db.clusters[i]
            b == db.clusters[j]
        IN  (a.unique_id = b.unique_id) <=>
                /\ Lower(a.brainArea) = Lower(b.brainArea)
                /\ a.expt = b.expt /\ a.pen = b.pen
                /\ a.clusterIdx = b.clusterIdx

\* C11 as stated: each loaded cluster's unique_id is
\* '<brain_area>-e<expt>-p<pen>-c<cluster_idx>' with expt, pen and cluster_idx
\* written as 3 digits each, computed only from the lower-cased brain area,
\* expt, pen and cluster_idx, and clusters that differ in any of the four get
\* different unique_ids.
C11_IdsOfThreeDigitFields ==
    Constructed =>
        /\ \A i \in 1..Len(db.clusters) : IdFormat(db.clusters[i], TRUE)
        /\ IdsIdentify

\* C11, amended: expt, pen and cluster_idx are zero-padded to at least 3
\* digits (a value of 1000 or more is written with all its digits); the
\* unique_id is computed only from the lower-cased brain area, expt, pen and
\* cluster_idx, and clusters that differ in any of the four get different
\* unique_ids.
C11_IdsOfPaddedFields ==
    Constructed =>
        /\ \A i \in 1..Len(db.clusters) : IdFormat(db.clusters[i], FALSE)
        /\ IdsIdentify

\* loaded together: a unit whose area is written in capitals, and two units
\* whose digits of expt and pen run together to the same text
C11_Witness ==
    /\ Constructed
    /\ \E i \in 1..Len(db.clusters) :
            db.clusters[i].brainArea # db.clusters[i].brain_area
    /\ \E i, j \in 1..Len(db.clusters) :
            /\ db.clusters[i].expt # db.clusters[j].expt
            /\ Digits(db.clusters[i].expt) \o Digits(db.clusters[i].pen)
                    = Digits(db.clusters[j].expt) \o Digits(db.clusters[j].pen)

\* what the loader leaves as it was in a unit's record
RawFields(d) ==
    [brainArea |-> d.brainArea, expt |-> d.expt, pen |-> d.pen,
     clusterIdx |-> d.clusterIdx, gridFileCodes |-> d.gridFileCodes]

\* the units for which every requested stim type was presented
Wanted(d) ==
    \A t \in Range(StimTypesList(db.request)) :
        \E i \in 1..Len(d.gridFileCodes) :
            ParseInt(Split(d.gridFileCodes[i], "_")[2]) = t

\* C12: after construction self.clusters holds, in raw-file order, exactly the
\* raw units whose presented stim types (parsed from gridFileCodes) include
\* every requested stim type, and n_clusters is their number.
C12_LoadsUnitsWithAllStimTypes ==
    Constructed =>
        /\ [i \in 1..Len(db.clusters) |-> RawFields(db.clusters[i])]
                = [i \in 1..Len(SelectSeq(raw, Wanted)) |->
                        RawFields(SelectSeq(raw, Wanted)[i])]
        /\ db.n_clusters = Len(SelectSeq(raw, Wanted))

\* two stim types were requested; a unit that was played only one of them was
\* skipped and the unit after it was kept
C12_Witness ==
    /\ Constructed
    /\ Len(db.stim_types) = 2
    /\ Len(raw) >= 2 /\ db.n_clusters >= 1
    /\ ~Wanted(raw[1]) /\ Wanted(raw[2])
    /\ \E t \in Range(db.stim_types) :
            \E i \in 1..Len(raw[1].gridFileCodes) :
                ParseInt(Split(raw[1].gridFileCodes[i], "_")[2]) = t

\* the 1-based place of the penetration of d among the penetrations of the
\* recording store, in order of first appearance over all its units
PenetrationPlace(d) ==
    LET first == Min({k \in 1..Len(raw) :
                        raw[k].expt = d.expt /\ raw[k].pen = d.pen})
    IN  1 + Cardinality({<<raw[k].expt, raw[k].pen>> : k \in 1..(first - 1)})

----------------------------------------------------------------------------
(* Properties of the queries *)

\* the cluster c satisfies one keyword criterion of select_data
Meets(c, criterion) ==
    LET kw == criterion[1]
        vals == criterion[2]
        items == IF vals.kind = "list" THEN vals.items ELSE <<vals.v>>
        among == \E i \in 1..Len(items) :
                    ~items[i].star /\ items[i].v = c[kw.key]
    IN  IF ~kw.exclude /\ kw.key = "noiseratio"
        THEN vals.kind = "num" =>
                (c.noiseratio.kind = "num" /\ c.noiseratio.v <= vals.v)
        ELSE IF kw.exclude THEN ~(kw.key \in DOMAIN c /\ among)
        ELSE IF vals.kind = "scalar" /\ vals.v.star THEN kw.key \in DOMAIN c
        ELSE kw.key \in DOMAIN c /\ among

\* C13: select_data returns exactly the clusters that satisfy every given
\* keyword criterion, in their original order: key=vals keeps the clusters
\* whose value for key is in vals (a scalar is a one-element list),
\* exclude_key=vals those whose value is not in vals, key='*' those that have
\* the key, noiseratio=v those whose noiseratio is not NaN and <= v, and
\* noiseratio='inf' or infinity filters nothing; with no criteria all clusters
\* are returned.
C13_SelectReturnsMatching ==
    qcall.op = "select_data" =>
        LET MeetsAll(c) ==
                \A k \in 1..Len(qcall.kwargs) : Meets(c, qcall.kwargs[k])
        IN  /\ qret.status = "ok"
            /\ qret.value = SelectSeq(db.clusters, MeetsAll)

\* the first place in the collection of a cluster whose key has the value v
FirstWith(key, v) ==
    CHOOSE p \in 1..Len(db.clusters) :
        /\ db.clusters[p][key] = v
        /\ \A q \in 1..(p - 1) : db.clusters[q][key] # v

\* C14: get_sorted(key=[v1..vn]) returns a list of n clusters whose i-th
\* element is the first cluster with cluster[key] == vi (it returns whenever
\* every cluster has the key and every vi occurs); called with more than one
\* keyword it raises ValueError('Can only sort clusters by a single key')
\* and returns nothing.
C14_GetSortedInAskedOrder ==
    qcall.op = "get_sorted" =>
        /\ Len(qcall.kwargs) > 1 =>
                /\ qret.status =
                        "ValueError: Can only sort clusters by a single key"
                /\ qret.value = <<>>
        /\ Len(qcall.kwargs) = 1 =>
                LET key == qcall.kwargs[1][1]
                    wanted == qcall.kwargs[1][2]
                    known == \A i \in 1..Len(db.clusters) :
                                key \in DOMAIN db.clusters[i]
                IN  /\ qret.status = "ok" =>
                        /\ Len(qret.value) = Len(wanted)
                        /\ \A i \in 1..Len(wanted) :
                                qret.value[i] = db.clusters[FirstWith(key, wanted[i])]
                    /\ (known /\ \A i \in 1..Len(wanted) :
                                    \E p \in 1..Len(db.clusters) :
                                        db.clusters[p][key] = wanted[i])
                            => qret.status = "ok"

\* get_sorted returned the clusters in another order than the collection's,
\* for a value that two clusters have
C14_Witness ==
    /\ qcall.op = "get_sorted" /\ qret.status = "ok"
    /\ Len(qret.value) >= 2
    /\ qret.value[1] # db.clusters[1]
    /\ \E p, q \in 1..Len(db.clusters) :
            /\ p < q
            /\ db.clusters[p].brain_area = db.clusters[q].brain_area
            /\ db.clusters[p] \in Range(qret.value)
            /\ db.clusters[q] \notin Range(qret.value)

\* C15: for every valid idx, get_data(idx) returns a copy of the data of
\* self.clusters[idx].
C15_GetDataReturnsCluster ==
    (qcall.op = "get_data" /\ qcall.idx >= 0 /\ qcall.idx < db.n_clusters) =>
        /\ qret.status = "ok"
        /\ qret.value = db.clusters[qcall.idx + 1]

\* the cluster c is expected to have a result by the arguments of the last
\* find_missing_results: no state asked for means both states
Expected(c) ==
    /\ CASE qcall.state.kind = "none" -> TRUE
          [] qcall.state.kind = "str" -> c.state = qcall.state.v
          [] qcall.state.kind = "list" ->
                qcall.state.items = <<>> \/ c.state \in Range(qcall.state.items)
    /\ qcall.optogenetic => c.optogenetic
    /\ qcall.noiseratio.kind = "num" =>
            (c.noiseratio.kind = "num" /\ c.noiseratio.v <= qcall.noiseratio.v)

\* C16: find_missing_results returns (missing, n_found): a cluster is expected
\* to have a result iff its state matches the requested state(s), it is
\* optogenetic when optogenetic=True, and, if a noise ratio threshold is given,
\* its noiseratio is not NaN and not above the threshold; missing lists the
\* unique_ids of the expected clusters lacking fieldname, n_found counts the
\* expected clusters having it, and len(missing) + n_found is the number of
\* expected clusters.
C16_FindMissingCountsExpected ==
    qcall.op = "find_missing_results" =>
        LET Lacking(c) == Expected(c) /\ qcall.fieldname \notin DOMAIN c
            Having(c) == Expected(c) /\ qcall.fieldname \in DOMAIN c
            lacking == SelectSeq(db.clusters, Lacking)
        IN  /\ qret.status = "ok"
            /\ qret.missing = [i \in 1..Len(lacking) |-> lacking[i].unique_id]
            /\ qret.n_found = Len(SelectSeq(db.clusters, Having))
            /\ Len(qret.missing) + qret.n_found
                    = Len(SelectSeq(db.clusters, Expected))

\* with a threshold given, one cluster was found, one was missing and one was
\* not expected
C16_Witness ==
    /\ qcall.op = "find_missing_results" /\ qret.status = "ok"
    /\ qcall.noiseratio.kind = "num"
    /\ qret.missing # <<>> /\ qret.n_found >= 1
    /\ Len(qret.missing) + qret.n_found < db.n_clusters

====
